---------------------------- MODULE Spec2Model ----------------------------
(***************************************************************************)
(* Polling and derived-metrics pipeline of the BTC cycle dashboards.       *)
(*                                                                         *)
(*   script-pro.js                          fetchJSON (timeout, retries),  *)
(*                                          fetchAllData, init             *)
(*   realtime-data-module-comprehensive.js  fetchWithCache, validateData,  *)
(*                                          initPolling, fetchAllData, init *)
(*                                                                         *)
(* Time is the value of Date.now() in milliseconds.  A timer is the time   *)
(* at which its callback runs; time never passes an armed timer.           *)
(***************************************************************************)
EXTENDS Integers, Sequences, FiniteSets, TLC

\* ------------------------------------------------------------------------
\* Bounds of the model
\* ------------------------------------------------------------------------
MaxTime == 45000

MaxCycles == 3

MaxCalls == 2

MaxLatency == 1

MaxPolls == 2

MaxClock == 70000

MaxWait == 1000

MaxSockets == 2

MaxPollClock == 25000

MaxS1Cycles == 2

MaxCleanups == 2

MaxScoreRuns == 18
MaxWebSockets == 3
MaxSockClock == 30000
MaxBootAttempts == 3
MaxRefreshTicks == 2
MaxBootClock == 140000
MaxHistRuns == 104

\* ------------------------------------------------------------------------
\* script-pro.js : configuration
\* ------------------------------------------------------------------------
UPDATE_INTERVAL == 60000

RETRY_ATTEMPTS == 3

RETRY_DELAY == 1000

FETCH_TIMEOUT == 10000

NoTimer == -1

\* The six requests of fetchAllData, named after the state field they feed.
Sources == {"bitcoin", "bitcoinData", "global", "fearGreed", "usdt", "usdc"}

\* What a fetchJSON call hands back: null, or the parsed body.  A body is
\* "ok" when it has the member fetchAllData looks for (bitcoin.bitcoin,
\* global.data, fearGreed.data[0], ..., and market_data.ath for the coin
\* document) and "bad" when it is some other truthy JSON value.  att is the
\* HTTP attempt that produced it when the call is followed attempt by
\* attempt, and 0 otherwise.
Null == [shape |-> "null", att |-> 0]

Body(sh, a) == [shape |-> sh, att |-> a]

Shapes == {"ok", "bad"}

VARIABLES
    now,          \* Date.now()
    state,        \* script-pro state.bitcoin ... state.stablecoins.usdc
    updateCount,  \* state.updateCount
    errors,       \* state.errors
    status,       \* text set by updateStatus
    lastUpdate,   \* state.lastUpdate
    interval,     \* time of the next setInterval(fetchAllData) tick
    inflight,     \* fetchAllData invocations awaiting their Promise.all
    started,      \* number of fetchAllData invocations so far
    probe,        \* the source whose fetchJSON call is followed step by step
    fj,           \* that fetchJSON call
    dataCache,    \* realtime module: APP_STATE.dataCache
    realtimeData, \* what the fetch handlers last wrote into realtimeData
    requests,     \* fetchWithCache calls awaiting their response
    nreq,         \* number of network requests issued so far
    lastCall,     \* the latest fetchWithCache call: key, time, request or not
    lastRet,      \* the latest fetchWithCache return: key, path, value
    putAt,        \* per key, when its cache entry was last written
    rtCycles,     \* realtime module: the fetchAllData invocations
    rtStarted,    \* number of fetchAllData invocations so far
    rtInterval,   \* APP_STATE.updateInterval: time of its next tick
    metricsRuns,  \* runs of the derived-metrics and updateUI block
    polls,        \* the poll loops started by initPolling
    npolls,       \* number of initPolling calls so far
    pollStart,    \* pending setTimeout(() => initPolling(), 1000)
    ws,           \* APP_STATE.wsConnection
    wsReconnect,  \* pending setTimeout(() => initWebSocket(), wsReconnectDelay)
    dashboardData, \* script_1.js: dashboardData
    s1Started,    \* script_1.js: fetchAllData invocations so far
    s1Inflight,   \* script_1.js: invocations awaiting Promise.allSettled
    cleanups,     \* realtime module: runs of the beforeunload handler
    call,         \* the arguments of the function call under examination
    result,       \* what that call returned
    weights,      \* realtimeData.weights, in hundredths
    componentScores, \* realtimeData.componentScores, in hundredths of a point
    compositeScore,  \* realtimeData.compositeScore
    regime,       \* realtimeData.regime
    scoreRuns,    \* runs of the scoring functions so far
    lastInput,    \* the fetched data the latest scoring run read
    sockets,      \* what each initWebSocket call constructed, in order
    wsTimers,     \* pending setTimeout(() => initWebSocket(), ...) of onclose
    boot,         \* initializeDashboard: the program, its attempts so far
    bootRetry,    \* pending setTimeout(initializeDashboard, 5000)
    refreshTimers, \* armed setInterval timers of startAutoRefresh
    refreshTicks, \* runs of the auto-refresh callback so far
    history,      \* script-pro state.history
    smoothers,    \* script-pro state.smoothers: samples each EMA has taken
    histRuns      \* calculateMetrics calls so far

proVars == <<state, updateCount, errors, status, lastUpdate, interval,
             inflight, started>>

fjVars == <<probe, fj>>

cacheVars == <<dataCache, realtimeData, requests, nreq, lastCall, lastRet,
               putAt>>

schedVars == <<rtCycles, rtStarted, rtInterval, metricsRuns, polls, npolls,
               pollStart, ws, wsReconnect>>

rtVars == <<cacheVars, schedVars>>

s1Vars == <<dashboardData, s1Started, s1Inflight>>

stopVars == <<cleanups>>

fnVars == <<call, result>>

scoreVars == <<weights, componentScores, compositeScore, regime, scoreRuns,
               lastInput>>

sockVars == <<sockets, wsTimers>>

bootVars == <<boot, bootRetry, refreshTimers, refreshTicks>>

histVars == <<history, smoothers, histRuns>>

pageVars == <<s1Vars, stopVars, fnVars, scoreVars, sockVars, bootVars,
              histVars>>

\* What the actions of script_1.js leave alone.
notS1 == <<now, proVars, fjVars, rtVars, stopVars, fnVars, scoreVars,
          sockVars, bootVars, histVars>>

\* What a function call leaves alone.
notFn == <<now, proVars, fjVars, rtVars, s1Vars, stopVars, scoreVars,
          sockVars, bootVars, histVars>>

\* What the scoring functions of the realtime module leave alone.
notScore == <<now, proVars, fjVars, rtVars, s1Vars, stopVars, fnVars,
             sockVars, bootVars, histVars>>

\* What the WebSocket handlers leave alone.
notSock == <<proVars, fjVars, rtVars, s1Vars, stopVars, fnVars, scoreVars,
            bootVars, histVars>>

\* What initializeDashboard and the auto-refresh leave alone.
notBoot == <<proVars, fjVars, rtVars, s1Vars, stopVars, fnVars, scoreVars,
            sockVars, histVars>>

\* What calculateMetrics leaves alone.
notHist == <<now, proVars, fjVars, rtVars, s1Vars, stopVars, fnVars,
            scoreVars, sockVars, bootVars>>

vars == <<now, proVars, fjVars, rtVars, pageVars>>

\* ------------------------------------------------------------------------
\* script-pro.js : fetchJSON
\* ------------------------------------------------------------------------
\* pc       where the innermost (recursive) call is suspended
\* retries  its retries argument
\* attempts HTTP requests issued so far; the current one is number attempts
\* timer    the abort timer of the current attempt
\* sleep    the timer of sleep(RETRY_DELAY)
\* start    when the current attempt was issued
\* failAt   when the previous attempt failed
\* result   the value the outermost call resolves with
\* outcome  whether the outermost promise is pending, resolved or rejected
\* fails    attempts that ended in the catch block
\* oks      attempts that returned their body
\* kinds    the kinds of failure met so far
\* aborted  attempts whose controller.abort() has run
\* net      aborted attempts whose response is still on its way
\* late     aborted attempts whose response arrived after the abort
fjIdle ==
    [pc |-> "idle", retries |-> RETRY_ATTEMPTS, attempts |-> 0,
     timer |-> NoTimer, sleep |-> NoTimer, start |-> 0, failAt |-> 0,
     result |-> Null, outcome |-> "pending", fails |-> 0, oks |-> 0,
     kinds |-> {}, aborted |-> {}, net |-> {}, late |-> {}]

FailureKinds == {"network", "timeout", "http", "parse"}

\* fetch(finalUrl, { signal: controller.signal }): the abort reaches the
\* request.
SignalDetached == FALSE

SignalAttached == TRUE

\* if (retries > 0)
RetryAllowed_OffByOne(retries) == retries >= 0

RetryAllowed(retries) == retries > 0

\* The catch block: clearTimeout, then sleep and recurse, or return null.
Catch_Rethrows(f, kind) ==
    LET g == [f EXCEPT !.timer = NoTimer, !.failAt = now, !.fails = @ + 1,
                       !.kinds = @ \cup {kind}]
    IN  IF RetryAllowed(f.retries)
        THEN [g EXCEPT !.pc = "sleep", !.sleep = now + RETRY_DELAY]
        ELSE [g EXCEPT !.pc = "done", !.outcome = "rejected"]

Catch(f, kind) ==
    LET g == [f EXCEPT !.timer = NoTimer, !.failAt = now, !.fails = @ + 1,
                       !.kinds = @ \cup {kind}]
    IN  IF RetryAllowed(f.retries)
        THEN [g EXCEPT !.pc = "sleep", !.sleep = now + RETRY_DELAY]
        ELSE [g EXCEPT !.pc = "done", !.result = Null,
                       !.outcome = "resolved"]

\* new AbortController(); setTimeout(abort, 10000); await fetch(...)
IssueAttempt(f, r) ==
    [f EXCEPT !.pc = "fetch", !.retries = r, !.attempts = @ + 1,
              !.timer = now + FETCH_TIMEOUT, !.sleep = NoTimer,
              !.start = now]

\* The request fails before any response (DNS, connection reset, CORS).
FetchRejects ==
    /\ fj.pc = "fetch"
    /\ fj' = Catch(fj, "network")
    /\ UNCHANGED <<now, proVars, probe, rtVars>>
    /\ UNCHANGED pageVars

\* The response headers arrive: clearTimeout(timeout); a status outside
\* 2xx throws, otherwise the call goes on to await response.json().
FetchResolves(ok) ==
    /\ fj.pc = "fetch"
    /\ fj' = IF ok
             THEN [fj EXCEPT !.pc = "body", !.timer = NoTimer]
             ELSE Catch(fj, "http")
    /\ UNCHANGED <<now, proVars, probe, rtVars>>
    /\ UNCHANGED pageVars

\* The 10 s timer runs controller.abort(): the pending fetch rejects with
\* an AbortError, and what the server sends afterwards is dropped.
AbortFires ==
    /\ fj.timer # NoTimer
    /\ now = fj.timer
    /\ LET f == [fj EXCEPT !.timer = NoTimer,
                           !.aborted = @ \cup {fj.attempts}]
       IN  fj' = IF SignalAttached
                 THEN Catch([f EXCEPT !.net = @ \cup {fj.attempts}],
                            "timeout")
                 ELSE f
    /\ UNCHANGED <<now, proVars, probe, rtVars>>
    /\ UNCHANGED pageVars

\* The response of an aborted attempt arrives after the abort: nobody is
\* waiting for it.
LateResponse(a) ==
    /\ a \in fj.net
    /\ fj' = [fj EXCEPT !.net = @ \ {a}, !.late = @ \cup {a}]
    /\ UNCHANGED <<now, proVars, probe, rtVars>>
    /\ UNCHANGED pageVars

\* response.json() resolves: return data.
BodyResolves(sh) ==
    /\ fj.pc = "body"
    /\ fj' = [fj EXCEPT !.pc = "done", !.outcome = "resolved",
                        !.result = Body(sh, fj.attempts), !.oks = @ + 1]
    /\ UNCHANGED <<now, proVars, probe, rtVars>>
    /\ UNCHANGED pageVars

\* response.json() rejects (the body is not JSON, the connection is lost).
BodyRejects ==
    /\ fj.pc = "body"
    /\ fj' = Catch(fj, "parse")
    /\ UNCHANGED <<now, proVars, probe, rtVars>>
    /\ UNCHANGED pageVars

\* sleep(RETRY_DELAY) is over: return fetchJSON(url, retries - 1).
SleepDone ==
    /\ fj.pc = "sleep"
    /\ now = fj.sleep
    /\ fj' = IssueAttempt(fj, fj.retries - 1)
    /\ UNCHANGED <<now, proVars, probe, rtVars>>
    /\ UNCHANGED pageVars

\* ------------------------------------------------------------------------
\* script-pro.js : fetchAllData, init
\* ------------------------------------------------------------------------
Results == {Null} \cup {Body(sh, 0) : sh \in Shapes}

\* Results of a cycle in which the followed call returned res and the
\* transport of the other five requests is down.
FollowedResults(s, res) == {[t \in Sources |-> IF t = s THEN res ELSE Null]}


\* Lines 178-201: a result replaces the stored value only when it is truthy
\* and has the expected member; the coin document is stored when truthy.
Stores(s, r) == r.shape # "null" /\ (s = "bitcoinData" \/ r.shape = "ok")

StoreAll(st, r) == [s \in Sources |-> IF Stores(s, r[s]) THEN r[s] ELSE st[s]]

\* calculateMetrics returns early unless bitcoin, bitcoinData and global are
\* set, then reads state.bitcoinData.market_data.ath.usd.
MetricsThrows_NoEarlyReturn(st) ==
    st["bitcoin"] = Null \/ st["bitcoinData"].shape # "ok"

MetricsThrows(st) ==
    /\ st["bitcoin"] # Null /\ st["bitcoinData"] # Null /\ st["global"] # Null
    /\ st["bitcoinData"].shape = "bad"

\* updateCyclePanel reads state.bitcoinData.market_data.ath.usd as soon as
\* bitcoin and bitcoinData are set.
UIThrows(st) ==
    /\ st["bitcoin"] # Null /\ st["bitcoinData"] # Null
    /\ st["bitcoinData"].shape = "bad"

\* fetchAllData up to its await: updateStatus('updating'), six fetchJSON
\* calls issued.
BeginCycle ==
    /\ started' = started + 1
    /\ inflight' = inflight \cup {started + 1}
    /\ status' = "UPDATING"

\* init(): the first fetchAllData call.  The fetchJSON call of source s is
\* the one followed attempt by attempt.
InitFollow(s) ==
    /\ started = 0
    /\ BeginCycle
    /\ probe' = s
    /\ fj' = IssueAttempt(fjIdle, RETRY_ATTEMPTS)
    /\ UNCHANGED <<now, state, updateCount, errors, lastUpdate, interval, rtVars>>
    /\ UNCHANGED pageVars

\* init(): the first fetchAllData call, every fetchJSON call taken as a whole.
InitCall ==
    /\ started = 0
    /\ BeginCycle
    /\ UNCHANGED <<now, state, updateCount, errors, lastUpdate, interval,
                   fjVars, rtVars>>
    /\ UNCHANGED pageVars

\* setInterval(fetchAllData, UPDATE_INTERVAL) fires.
IntervalTick ==
    /\ interval # NoTimer
    /\ now = interval
    /\ started < MaxCycles
    /\ BeginCycle
    /\ interval' = now + UPDATE_INTERVAL
    /\ UNCHANGED <<now, state, updateCount, errors, lastUpdate, fjVars,
                   rtVars>>
    /\ UNCHANGED pageVars

\* The six promises of cycle c have settled with results r and fetchAllData
\* runs to its end; the first cycle then returns to init, which arms the
\* interval.
FetchAllDataResume(c, r) ==
    /\ c \in inflight
    /\ inflight' = inflight \ {c}
    /\ \/ probe = "none"
       \/ fj.pc = "done" /\ fj.outcome = "rejected"
       \/ fj.pc = "done" /\ fj.outcome = "resolved" /\ r[probe] = fj.result
    /\ IF probe # "none" /\ fj.outcome = "rejected"
       THEN /\ errors' = errors + 1
            /\ status' = "ERROR"
            /\ UNCHANGED <<state, updateCount, lastUpdate>>
       ELSE /\ state' = StoreAll(state, r)
            /\ IF MetricsThrows(state') \/ UIThrows(state')
               THEN /\ errors' = errors + 1
                    /\ status' = "ERROR"
                    /\ UNCHANGED <<updateCount, lastUpdate>>
               ELSE /\ lastUpdate' = now
                    /\ updateCount' = updateCount + 1
                    /\ errors' = 0
                    /\ status' = "LIVE"
    /\ interval' = IF c = 1 THEN now + UPDATE_INTERVAL ELSE interval
    /\ UNCHANGED <<now, started, fjVars, rtVars>>
    /\ UNCHANGED pageVars

\* ------------------------------------------------------------------------
\* realtime-data-module-comprehensive.js : API_CONFIG, payloads
\* ------------------------------------------------------------------------
cacheDuration == 60000

\* The cache keys of fetchBitcoinData, fetchFearGreed, fetchGoldPrice and
\* fetchHistoricalData.
Keys == {"bitcoin", "feargreed", "gold", "historical"}

\* A parsed response body, reduced to what validateData and the handlers
\* look at:
\*   nil   the JSON value is falsy (null)
\*   has   it has the member the key is about: market_data.current_price,
\*         data[0], gold, Data.Data
\*   v     the number in it: current_price.usd, data[0].value, gold.usd
\*   full  it has what the handler dereferences without a check:
\*         total_volume, market_cap, ath and ath_date of market_data, and for
\*         Data.Data an array of candles
Data(h, n, f) == [nil |-> FALSE, has |-> h, v |-> n, full |-> f]

NullData == [nil |-> TRUE, has |-> FALSE, v |-> 0, full |-> FALSE]

\* Bodies a server may send for a key: a complete one, one that lacks the
\* members the handler dereferences, one with an implausible number, one
\* without the member, and the JSON value null.
Payloads(k) ==
    LET good == CASE k = "bitcoin"   -> 50000
                  [] k = "feargreed" -> 50
                  [] k = "gold"      -> 2000
                  [] OTHER           -> 0
        off  == CASE k = "bitcoin"   -> 1000
                  [] k = "feargreed" -> 101
                  [] k = "gold"      -> 10000
                  [] OTHER           -> 0
    IN  {Data(TRUE, good, TRUE), Data(TRUE, good, FALSE),
         Data(TRUE, off, TRUE), Data(FALSE, 0, FALSE), NullData}

\* How a request ends: the transport fails (network error, status outside
\* 2xx, body that is not JSON), or a body is parsed.
TransportFailures == {"network", "http", "parse"}

Outcomes(k) ==
    {[kind |-> f, body |-> NullData] : f \in TransportFailures}
        \cup {[kind |-> "ok", body |-> b] : b \in Payloads(k)}

NoEntry == [data |-> NullData, timestamp |-> -1]

\* validateData with a closed policy: a key it does not know is rejected.
validateData_Closed(data, type) ==
    IF data.nil THEN FALSE
    ELSE CASE type = "bitcoin"   -> data.has /\ data.v > 1000
           [] type = "feargreed" -> data.has /\ data.v >= 0 /\ data.v <= 100
           [] type = "gold"      -> data.has /\ data.v > 1000 /\ data.v < 10000
           [] OTHER              -> FALSE

\* validateData(data, type)
validateData(data, type) ==
    IF data.nil THEN FALSE
    ELSE CASE type = "bitcoin"   -> data.has /\ data.v > 1000
           [] type = "feargreed" -> data.has /\ data.v >= 0 /\ data.v <= 100
           [] type = "gold"      -> data.has /\ data.v > 1000 /\ data.v < 10000
           [] OTHER              -> TRUE

\* APP_STATE.dataCache[cacheKey] && now - timestamp < cacheDuration
Fresh(k) ==
    /\ dataCache[k] # NoEntry
    /\ now - dataCache[k].timestamp < cacheDuration

\* APP_STATE.dataCache[cacheKey]?.data || null
Fallback_FreshOnly(k) ==
    IF Fresh(k) /\ ~dataCache[k].data.nil THEN dataCache[k].data ELSE NullData

Fallback(k) ==
    IF dataCache[k] # NoEntry /\ ~dataCache[k].data.nil
    THEN dataCache[k].data
    ELSE NullData

\* fetchWithCache with the cache written before the body is validated.
CacheOutcome_StoreFirst(k, t0, out) ==
    IF out.kind \in TransportFailures
    THEN [via |-> "fail", data |-> Fallback(k), entry |-> dataCache[k]]
    ELSE IF validateData(out.body, k)
    THEN [via |-> "fresh", data |-> out.body,
          entry |-> [data |-> out.body, timestamp |-> t0]]
    ELSE [via |-> "invalid", data |-> out.body,
          entry |-> [data |-> out.body, timestamp |-> t0]]

\* What fetchWithCache does with the outcome of its request: the path taken,
\* the value returned and the entry left in the cache.  out is a transport
\* failure or a parsed body; t0 is Date.now() at the start of the call.
CacheOutcome(k, t0, out) ==
    IF out.kind \in TransportFailures
    THEN [via |-> "fail", data |-> Fallback(k), entry |-> dataCache[k]]
    ELSE IF validateData(out.body, k)
    THEN [via |-> "fresh", data |-> out.body,
          entry |-> [data |-> out.body, timestamp |-> t0]]
    ELSE [via |-> "invalid", data |-> Fallback(k), entry |-> dataCache[k]]

\* The handlers' guards: if (data && data.market_data), if (data &&
\* data.data && data.data[0]), if (data && data.gold), if (data && data.Data
\* && data.Data.Data).
Applies(k, data) == ~data.nil /\ data.has

\* fetchBitcoinData reads m.total_volume.usd, m.market_cap.usd, m.ath.usd and
\* m.ath_date.usd; fetchHistoricalData calls priceData.map.
HandlerThrows(k, data) ==
    /\ Applies(k, data)
    /\ k \in {"bitcoin", "historical"}
    /\ ~data.full

\* ------------------------------------------------------------------------
\* realtime-data-module-comprehensive.js : fetchWithCache and the handlers
\* ------------------------------------------------------------------------
updateInterval == 60000

wsReconnectDelay == 5000

POLL_DELAY == 10000

POLL_START_DELAY == 1000

NoCall == [at |-> -1, net |-> FALSE, flip |-> 0]

NoRet == [via |-> "none", data |-> NullData, flip |-> 0]

NoCycle == [pending |-> {}, phase |-> "idle"]

NoPoll == [pc |-> "idle", timer |-> NoTimer]

Owner(kind, id) == [kind |-> kind, id |-> id]

\* The handler calls C (key and caller) are made now, in one run of the
\* event loop.  A fresh entry is returned at once and the handler applies
\* it; otherwise the request goes out and the handler waits at its await.
CallAll(C) ==
    LET K == {c.key : c \in C}
        n(k) == Cardinality({c \in C : c.key = k})
    IN  /\ requests' = requests \cup
              {[key |-> c.key, t0 |-> now, owner |-> c.owner] :
                  c \in {d \in C : ~Fresh(d.key)}}
        /\ nreq' = nreq + Cardinality({d \in C : ~Fresh(d.key)})
        /\ realtimeData' =
              [k \in Keys |->
                  IF k \in K /\ Fresh(k) /\ Applies(k, dataCache[k].data)
                  THEN dataCache[k].data ELSE realtimeData[k]]
        /\ lastCall' =
              [k \in Keys |->
                  IF k \in K
                  THEN [at |-> now, net |-> ~Fresh(k),
                        flip |-> (lastCall[k].flip + n(k)) % 2]
                  ELSE lastCall[k]]
        /\ lastRet' =
              [k \in Keys |->
                  IF k \in K /\ Fresh(k)
                  THEN [via |-> "hit", data |-> dataCache[k].data,
                        flip |-> (lastRet[k].flip + n(k)) % 2]
                  ELSE lastRet[k]]
        /\ UNCHANGED <<dataCache, putAt>>

CallsOf(K, o) == {[key |-> k, owner |-> o] : k \in K}

\* One of the handlers called on a fresh entry throws.
HitThrows(K) ==
    \E k \in K : Fresh(k) /\ HandlerThrows(k, dataCache[k].data)

\* Where the Promise.all of a cycle stands once one more handler has
\* returned (threw = FALSE) or thrown: the first throw rejects it and the
\* catch block runs; the last return lets the metrics and updateUI run.
CyclePhase(phase, pending, threw) ==
    IF phase # "awaiting" THEN phase
    ELSE IF threw THEN "caught"
    ELSE IF pending = {} THEN "done"
    ELSE "awaiting"

\* The handler of request r has returned or thrown: its caller goes on.
\* A cycle takes the handler off its Promise.all; a poll loop arms its next
\* round, unless fetchBitcoinData threw and poll() was rejected.
OwnerResumes(o, k, threw) ==
    IF o.kind = "cycle"
    THEN LET cy == rtCycles[o.id]
             pend == cy.pending \ {k}
             ph == CyclePhase(cy.phase, pend, threw)
         IN  /\ rtCycles' = [rtCycles EXCEPT
                                ![o.id] = [pending |-> pend, phase |-> ph]]
             /\ metricsRuns' = IF cy.phase = "awaiting" /\ ph = "done"
                               THEN metricsRuns + 1 ELSE metricsRuns
             /\ rtInterval' = IF o.id = 1 /\ cy.phase = "awaiting"
                                 /\ ph # "awaiting"
                              THEN now + updateInterval ELSE rtInterval
             /\ UNCHANGED polls
    ELSE IF o.kind = "poll"
    THEN /\ polls' = [polls EXCEPT
                         ![o.id] = IF threw THEN [pc |-> "dead", timer |-> NoTimer]
                                   ELSE [pc |-> "armed",
                                         timer |-> now + POLL_DELAY]]
         /\ UNCHANGED <<rtCycles, metricsRuns, rtInterval>>
    ELSE UNCHANGED <<rtCycles, metricsRuns, rtInterval, polls>>

\* The request r of a fetchWithCache call ends with out: fetchWithCache
\* returns, the handler applies what it got, and the caller goes on.
Settle(r, out) ==
    /\ r \in requests
    /\ LET k == r.key
           o == CacheOutcome(k, r.t0, out)
       IN  /\ dataCache' = [dataCache EXCEPT ![k] = o.entry]
           /\ putAt' = IF o.via = "fresh" THEN [putAt EXCEPT ![k] = now]
                       ELSE putAt
           /\ lastRet' = [lastRet EXCEPT
                             ![k] = [via |-> o.via, data |-> o.data,
                                     flip |-> 1 - lastRet[k].flip]]
           /\ realtimeData' = IF Applies(k, o.data)
                              THEN [realtimeData EXCEPT ![k] = o.data]
                              ELSE realtimeData
           /\ OwnerResumes(r.owner, k, HandlerThrows(k, o.data))
    /\ requests' = requests \ {r}
    /\ UNCHANGED <<now, proVars, fjVars, nreq, lastCall, rtStarted, npolls,
                   pollStart, ws, wsReconnect>>
    /\ UNCHANGED pageVars

\* fetchAllData: the four handlers are called; the Promise.all is rejected
\* at once when a handler throws on a fresh entry, and fulfilled at once when
\* every key was fresh.
CycleStarted ==
    LET pend == {k \in Keys : ~Fresh(k)}
    IN  [pending |-> pend, phase |-> CyclePhase("awaiting", pend, HitThrows(Keys))]

\* poll(): fetchBitcoinData is called; on a fresh entry it returns at once
\* and the next round is armed, unless it threw.
PollStarted ==
    IF ~Fresh("bitcoin") THEN [pc |-> "fetching", timer |-> NoTimer]
    ELSE IF HitThrows({"bitcoin"}) THEN [pc |-> "dead", timer |-> NoTimer]
    ELSE [pc |-> "armed", timer |-> now + POLL_DELAY]

\* init(): initWebSocket(), then the first fetchAllData.  When the WebSocket
\* constructor throws, initWebSocket falls back to initPolling().
RtInit(wsThrows) ==
    /\ rtStarted = 0 /\ ws.st = "none" /\ npolls = 0
    /\ ws' = IF wsThrows THEN ws ELSE [st |-> "connecting", n |-> 1]
    /\ npolls' = IF wsThrows THEN 1 ELSE 0
    /\ polls' = IF wsThrows THEN [polls EXCEPT ![1] = PollStarted] ELSE polls
    /\ rtStarted' = 1
    /\ rtCycles' = [rtCycles EXCEPT ![1] = CycleStarted]
    /\ metricsRuns' = IF CycleStarted.phase = "done" THEN metricsRuns + 1
                      ELSE metricsRuns
    /\ rtInterval' = IF CycleStarted.phase # "awaiting"
                     THEN now + updateInterval ELSE NoTimer
    /\ CallAll(CallsOf(Keys, Owner("cycle", 1)) \cup
               (IF wsThrows THEN CallsOf({"bitcoin"}, Owner("poll", 1))
                ELSE {}))
    /\ UNCHANGED <<now, proVars, fjVars, pollStart, wsReconnect>>
    /\ UNCHANGED pageVars

\* APP_STATE.updateInterval fires: async () => { await fetchAllData(); }
RtIntervalTick ==
    /\ rtInterval # NoTimer
    /\ now = rtInterval
    /\ rtStarted < MaxCycles
    /\ rtStarted' = rtStarted + 1
    /\ rtCycles' = [rtCycles EXCEPT ![rtStarted + 1] = CycleStarted]
    /\ metricsRuns' = IF CycleStarted.phase = "done" THEN metricsRuns + 1
                      ELSE metricsRuns
    /\ rtInterval' = now + updateInterval
    /\ CallAll(CallsOf(Keys, Owner("cycle", rtStarted + 1)))
    /\ UNCHANGED <<now, proVars, fjVars, polls, npolls, pollStart, ws,
                   wsReconnect>>
    /\ UNCHANGED pageVars

\* onopen
WsOpen ==
    /\ ws.st = "connecting"
    /\ ws' = [ws EXCEPT !.st = "open"]
    /\ UNCHANGED <<now, proVars, fjVars, cacheVars, rtCycles, rtStarted,
                   rtInterval, metricsRuns, polls, npolls, pollStart,
                   wsReconnect>>
    /\ UNCHANGED pageVars

\* onerror: setTimeout(() => initPolling(), 1000)
WsError ==
    /\ ws.st \in {"connecting", "open"}
    /\ npolls + Cardinality(pollStart) < MaxPolls
    /\ now + POLL_START_DELAY \notin pollStart
    /\ pollStart' = pollStart \cup {now + POLL_START_DELAY}
    /\ UNCHANGED <<now, proVars, fjVars, cacheVars, rtCycles, rtStarted,
                   rtInterval, metricsRuns, polls, npolls, ws, wsReconnect>>
    /\ UNCHANGED pageVars

\* onclose: setTimeout(() => initWebSocket(), wsReconnectDelay)
WsClose ==
    /\ \/ ws.st \in {"connecting", "open"} /\ ws.n < MaxSockets
       \/ ws.st = "closing"
    /\ ws' = [ws EXCEPT !.st = "closed"]
    /\ wsReconnect' = now + wsReconnectDelay
    /\ UNCHANGED <<now, proVars, fjVars, cacheVars, rtCycles, rtStarted,
                   rtInterval, metricsRuns, polls, npolls, pollStart>>
    /\ UNCHANGED pageVars

\* The reconnect timer runs initWebSocket().
WsReconnectFires(wsThrows) ==
    /\ wsReconnect # NoTimer
    /\ now = wsReconnect
    /\ wsReconnect' = NoTimer
    /\ IF wsThrows
       THEN /\ npolls < MaxPolls
            /\ npolls' = npolls + 1
            /\ polls' = [polls EXCEPT ![npolls + 1] = PollStarted]
            /\ CallAll(CallsOf({"bitcoin"}, Owner("poll", npolls + 1)))
            /\ UNCHANGED ws
       ELSE /\ ws' = [st |-> "connecting", n |-> ws.n + 1]
            /\ UNCHANGED <<cacheVars, polls, npolls>>
    /\ UNCHANGED <<now, proVars, fjVars, rtCycles, rtStarted, rtInterval,
                   metricsRuns, pollStart>>
    /\ UNCHANGED pageVars

\* The timer set by onerror runs initPolling(): a new poll loop.
PollStartFires ==
    /\ now \in pollStart
    /\ npolls < MaxPolls
    /\ pollStart' = pollStart \ {now}
    /\ npolls' = npolls + 1
    /\ polls' = [polls EXCEPT ![npolls + 1] = PollStarted]
    /\ CallAll(CallsOf({"bitcoin"}, Owner("poll", npolls + 1)))
    /\ UNCHANGED <<now, proVars, fjVars, rtCycles, rtStarted, rtInterval,
                   metricsRuns, ws, wsReconnect>>
    /\ UNCHANGED pageVars

\* setTimeout(poll, 10000) runs poll().
PollTimerFires(p) ==
    /\ polls[p].pc = "armed"
    /\ now = polls[p].timer
    /\ polls' = [polls EXCEPT ![p] = PollStarted]
    /\ CallAll(CallsOf({"bitcoin"}, Owner("poll", p)))
    /\ UNCHANGED <<now, proVars, fjVars, rtCycles, rtStarted, rtInterval,
                   metricsRuns, npolls, pollStart, ws, wsReconnect>>
    /\ UNCHANGED pageVars

\* beforeunload: wsConnection.close() when a socket was constructed (its
\* close event follows, unless it is closed already), and clearInterval of
\* APP_STATE.updateInterval when init() has set it.
BeforeUnload ==
    /\ rtStarted > 0
    /\ cleanups < MaxCleanups
    /\ cleanups' = cleanups + 1
    /\ ws' = IF ws.st \in {"connecting", "open"}
             THEN [ws EXCEPT !.st = "closing"] ELSE ws
    /\ rtInterval' = NoTimer
    /\ UNCHANGED <<now, proVars, fjVars, cacheVars, rtCycles, rtStarted,
                   metricsRuns, polls, npolls, pollStart, wsReconnect,
                   s1Vars, fnVars, scoreVars, sockVars, bootVars, histVars>>

\* A handler is called on its own.  fetchWithCache touches the entry of its
\* own key only: a behaviour exercises one key.
CallHandler(k) ==
    /\ Fresh(k) \/ nreq < MaxCalls
    /\ \A j \in Keys \ {k} : lastCall[j] = NoCall
    /\ CallAll(CallsOf({k}, Owner("none", nreq + 1)))
    /\ UNCHANGED <<now, proVars, fjVars, schedVars>>
    /\ UNCHANGED pageVars

\* ------------------------------------------------------------------------
\* Time
\* ------------------------------------------------------------------------
Timers ==
    ({fj.timer, fj.sleep, interval, rtInterval, wsReconnect} \cup pollStart
        \cup {polls[p].timer : p \in DOMAIN polls}
        \cup {t.at : t \in wsTimers} \cup bootRetry
        \cup {t.at : t \in refreshTimers}) \ {NoTimer}

\* Time jumps to the next armed timer.
TimerJump(horizon) ==
    /\ Timers # {}
    /\ \E t \in Timers :
          /\ \A u \in Timers : t <= u
          /\ now < t /\ t <= horizon
          /\ now' = t

\* No timer is armed and d passes.
Drift(d, horizon) ==
    /\ Timers = {}
    /\ now + d <= horizon
    /\ now' = now + d

\* ------------------------------------------------------------------------
\* script_1.js : fetchAllData
\* ------------------------------------------------------------------------
S1Sources == {"bitcoin", "stablecoins", "fearGreed"}

\* A parsed body: whether it came with a 2xx status (ok) and whether it has
\* the members of the endpoint's normal answer (has).
S1Body(ok, has) == [nil |-> FALSE, ok |-> ok, has |-> has]

S1Null == [nil |-> TRUE, ok |-> FALSE, has |-> FALSE]

\* fetch(url).then(r => r.json()): the fetch rejects, the body is not JSON,
\* or the body is parsed, whatever the status of the response.
S1Responses ==
    {[kind |-> "network", body |-> S1Null], [kind |-> "parse", body |-> S1Null]}
        \cup {[kind |-> "json", body |-> S1Body(ok, has)] :
                 ok \in BOOLEAN, has \in BOOLEAN}

\* The promise of a source is fulfilled when r.json() resolves.
S1Fulfilled(r) == r.kind = "json"

\* fearGreedRes.value.data[0] throws when the body has no data member; the
\* assignments to bitcoin and stablecoins have been made by then.
S1Store(d, res) ==
    [src \in S1Sources |->
        IF ~S1Fulfilled(res[src]) THEN d[src]
        ELSE IF src = "fearGreed" /\ ~res[src].body.has THEN d[src]
        ELSE res[src].body]

\* fetchAllData is called (by initializeDashboard or by the interval) and
\* awaits Promise.allSettled.
S1Begin ==
    /\ s1Started < MaxS1Cycles
    /\ s1Started' = s1Started + 1
    /\ s1Inflight' = s1Inflight + 1
    /\ UNCHANGED <<notS1, dashboardData>>

\* The three promises have settled with res: the fulfilled values are stored.
S1Resume(res) ==
    /\ s1Inflight > 0
    /\ s1Inflight' = s1Inflight - 1
    /\ dashboardData' = S1Store(dashboardData, res)
    /\ UNCHANGED <<notS1, s1Started>>

\* ------------------------------------------------------------------------
\* Specifications
\* ------------------------------------------------------------------------
InitPro ==
    /\ now = 0
    /\ state = [s \in Sources |-> Null]
    /\ updateCount = 0
    /\ errors = 0
    /\ status = "INIT"
    /\ lastUpdate = 0
    /\ interval = NoTimer
    /\ inflight = {}
    /\ started = 0
    /\ probe = "none"
    /\ fj = fjIdle

\* The realtime module once loaded, before init() runs.
InitRT ==
    /\ dataCache = [k \in Keys |-> NoEntry]
    /\ realtimeData = [k \in Keys |-> NullData]
    /\ requests = {}
    /\ nreq = 0
    /\ lastCall = [k \in Keys |-> NoCall]
    /\ lastRet = [k \in Keys |-> NoRet]
    /\ putAt = [k \in Keys |-> -1]
    /\ rtCycles = [c \in 1..MaxCycles |-> NoCycle]
    /\ rtStarted = 0
    /\ rtInterval = NoTimer
    /\ metricsRuns = 0
    /\ polls = [p \in 1..MaxPolls |-> NoPoll]
    /\ npolls = 0
    /\ pollStart = {}
    /\ ws = [st |-> "none", n |-> 0]
    /\ wsReconnect = NoTimer

InitS1 ==
    /\ dashboardData = [src \in S1Sources |-> S1Null]
    /\ s1Started = 0
    /\ s1Inflight = 0

\* No function call is under examination.
NoCallArgs == [fn |-> "none"]

NoResult == [done |-> FALSE]

Returned(v) == [done |-> TRUE, val |-> v]

\* realtimeData as declared: weights 0.30 / 0.25 / 0.20 / 0.15 / 0.10.
InitScore ==
    /\ weights = [macro |-> 30, onChain |-> 25, liquidity |-> 20,
                  leverage |-> 15, sentiment |-> 10]
    /\ componentScores = [macro |-> 4500, onChain |-> 6800, liquidity |-> 5200,
                          leverage |-> 3200, sentiment |-> 4800]
    /\ compositeScore = 52
    /\ regime = "EXPANSION"
    /\ scoreRuns = 0
    /\ lastInput = [vol |-> -1, mvrv |-> -1, fng |-> -1, funding |-> -1,
                    rand |-> -1]

InitSock == sockets = <<>> /\ wsTimers = {}

NoBoot == [prog |-> "none", pc |-> "idle", attempts |-> 0, threw |-> 0]

InitBoot ==
    /\ boot = NoBoot /\ bootRetry = {} /\ refreshTimers = {}
    /\ refreshTicks = 0

InitHist ==
    /\ history = [prices |-> <<>>, riskScores |-> <<>>,
                  cyclePositions |-> <<>>]
    /\ smoothers = [price |-> 0, risk |-> 0]
    /\ histRuns = 0

InitPage ==
    InitS1 /\ cleanups = 0 /\ InitScore /\ InitSock /\ InitBoot /\ InitHist

InitRest == InitPro /\ InitRT /\ InitPage

Init == InitRest /\ call = NoCallArgs /\ result = NoResult

\* Time while the followed fetchJSON call is in progress.
AdvanceFetch ==
    /\ fj.pc \in {"fetch", "body", "sleep"}
    /\ \/ TimerJump(MaxTime + (RETRY_ATTEMPTS + 1) * (FETCH_TIMEOUT + RETRY_DELAY))
       \/ Drift(FETCH_TIMEOUT, MaxTime)
    /\ UNCHANGED <<proVars, fjVars, rtVars>>
    /\ UNCHANGED pageVars

\* One fetchAllData cycle with one fetchJSON call followed step by step.
NextFetch ==
    \/ \E s \in Sources : InitFollow(s)
    \/ FetchRejects
    \/ \E ok \in BOOLEAN : FetchResolves(ok)
    \/ AbortFires
    \/ \E a \in 1..(RETRY_ATTEMPTS + 2) : LateResponse(a)
    \/ \E sh \in Shapes : BodyResolves(sh)
    \/ BodyRejects
    \/ SleepDone
    \/ \E r \in FollowedResults(probe, fj.result) : FetchAllDataResume(1, r)
    \/ AdvanceFetch

SpecFetch == Init /\ [][NextFetch]_vars

\* The transport settles every request and every body read, and timers run.
TransportSettles ==
    \/ FetchRejects
    \/ \E ok \in BOOLEAN : FetchResolves(ok)
    \/ \E sh \in Shapes : BodyResolves(sh)
    \/ BodyRejects

SpecFetchFair ==
    /\ SpecFetch
    /\ WF_vars(TransportSettles)
    /\ WF_vars(SleepDone)
    /\ WF_vars(AdvanceFetch)

\* Time between the cycles.
AdvancePro ==
    /\ \/ TimerJump(MaxCycles * UPDATE_INTERVAL)
       \/ Drift(UPDATE_INTERVAL, MaxCycles * UPDATE_INTERVAL)
    /\ UNCHANGED <<proVars, fjVars, rtVars>>
    /\ UNCHANGED pageVars

\* init() and the periodic cycles.
NextPro ==
    \/ InitCall
    \/ IntervalTick
    \/ \E c \in 1..MaxCycles : \E r \in [Sources -> Results] :
          FetchAllDataResume(c, r)
    \/ AdvancePro

SpecPro == Init /\ [][NextPro]_vars

\* fetchWithCache under calls at any time.  Time is sampled around the start
\* of a request and around the end of the freshness window that follows.
Instants ==
    (0..MaxLatency) \cup
    ((cacheDuration - 1)..(cacheDuration + MaxLatency + 1))

AdvanceCache ==
    /\ \E t \in Instants : now < t /\ now' = t
    /\ UNCHANGED <<proVars, fjVars, rtVars>>
    /\ UNCHANGED pageVars

NextCache ==
    \/ \E k \in Keys : CallHandler(k)
    \/ \E r \in requests :
          \E out \in Outcomes(r.key) : Settle(r, out)
    \/ AdvanceCache

SpecCache == Init /\ [][NextCache]_vars

\* The realtime module: init(), the WebSocket, the poll loops and the cycles.
\* The outcomes that tell the handlers apart: the request fails, the body is
\* complete, or the body passes validateData and lacks what the handler reads.
HandlerOutcomes(k) ==
    {out \in Outcomes(k) :
        \/ out.kind = "network" /\ k \in {"bitcoin", "historical"}
        \/ out.kind = "ok" /\ validateData(out.body, k) /\ out.body.has
              /\ (out.body.full \/ k \in {"bitcoin", "historical"})}

\* Time jumps to the next armed timer; a request is answered within
\* MaxWait of being sent.
AdvanceRT(horizon) ==
    /\ TimerJump(horizon)
    /\ \A r \in requests : now' - r.t0 <= MaxWait
    /\ UNCHANGED <<proVars, fjVars, rtVars>>
    /\ UNCHANGED pageVars

\* The refresh cycles: init() and the interval, while the WebSocket sends
\* no event.
NextCycle ==
    \/ \E t \in BOOLEAN : RtInit(t)
    \/ RtIntervalTick
    \/ \E p \in 1..MaxPolls : PollTimerFires(p)
    \/ \E r \in requests : \E out \in HandlerOutcomes(r.key) : Settle(r, out)
    \/ AdvanceRT(MaxClock)

SpecCycle == Init /\ [][NextCycle]_vars

\* The WebSocket and the fallback polling, in the first MaxPollClock
\* milliseconds after init().
NextPoll ==
    \/ \E t \in BOOLEAN : RtInit(t)
    \/ WsOpen
    \/ WsError
    \/ WsClose
    \/ \E t \in BOOLEAN : WsReconnectFires(t)
    \/ PollStartFires
    \/ \E p \in 1..MaxPolls : PollTimerFires(p)
    \/ \E r \in requests : \E out \in HandlerOutcomes(r.key) : Settle(r, out)
    \/ AdvanceRT(MaxPollClock)

SpecPoll == Init /\ [][NextPoll]_vars

\* The realtime module with its beforeunload handler, in the first
\* MaxPollClock milliseconds after init(), while no socket reports an error.
NextStop ==
    \/ \E t \in BOOLEAN : RtInit(t)
    \/ WsOpen
    \/ WsClose
    \/ \E t \in BOOLEAN : WsReconnectFires(t)
    \/ \E p \in 1..MaxPolls : PollTimerFires(p)
    \/ \E r \in requests : \E out \in HandlerOutcomes(r.key) : Settle(r, out)
    \/ BeforeUnload
    \/ AdvanceRT(MaxPollClock)

SpecStop == Init /\ [][NextStop]_vars

\* validateData applied to a payload and a key.
ValidatorValues == {0, 50, 101, 1000, 1001, 2000, 10000, 50000}

ValidatorPayloads ==
    {NullData} \cup {Data(h, n, f) : h \in BOOLEAN, n \in ValidatorValues,
                                     f \in BOOLEAN}

ValidatorTypes == Keys \cup {"volatility", "onchain"}

InitValidate ==
    /\ InitRest
    /\ call \in {[fn |-> "validateData", data |-> d, type |-> t] :
                    d \in ValidatorPayloads, t \in ValidatorTypes}
    /\ result = NoResult

CallValidateData ==
    /\ call.fn = "validateData"
    /\ ~result.done
    /\ result' = Returned(validateData(call.data, call.type))
    /\ UNCHANGED <<notFn, call>>

SpecValidate == InitValidate /\ [][CallValidateData]_vars

\* ------------------------------------------------------------------------
\* realtime-data-module-comprehensive.js : the scoring functions
\* ------------------------------------------------------------------------
\* The fields of realtimeData the scoring reads, as the handlers and
\* calculateDerivedMetrics left them; 0 stands for null.  vol is
\* volatility90d in percent, mvrv in hundredths, fng the fear-greed index,
\* funding the funding rate in units of 0.0001, rand the value of
\* Math.random() in thousandths.
ScoreInputs ==
    [vol : {0, 85}, mvrv : {175}, fng : {0, 20, 100}, funding : {10, 49},
     rand : {0}]

\* x || d
OrDefault(x, d) == IF x = 0 THEN d ELSE x

Clamp(lo, hi, x) == IF x < lo THEN lo ELSE IF x > hi THEN hi ELSE x

\* Math.round of n / d for d > 0: the nearest integer, halves upwards.
Round(n, d) == (2 * n + d) \div (2 * d)

detectRegimeHMM(in) ==
    LET vol  == OrDefault(in.vol, 65)
        mvrv == OrDefault(in.mvrv, 150)
        fng  == OrDefault(in.fng, 50)
    IN  IF vol < 40 /\ mvrv < 120 /\ fng < 30 THEN "CAPITULATION"
        ELSE IF vol < 50 /\ mvrv < 150 /\ fng < 45 THEN "ACCUMULATION"
        ELSE IF vol > 50 /\ vol < 75 /\ mvrv > 130 /\ mvrv < 250
                  /\ fng > 40 /\ fng < 70 THEN "EXPANSION"
        ELSE IF vol > 70 /\ mvrv > 250 /\ fng > 70 THEN "EUPHORIA"
        ELSE IF mvrv > 350 \/ fng > 85 THEN "DISTRIBUTION"
        ELSE "EXPANSION"

calculateComponentScores(in) ==
    LET mvrv    == OrDefault(in.mvrv, 150)
        fng     == OrDefault(in.fng, 50)
        funding == OrDefault(in.funding, 10)
    IN  [macro     |-> 4500,
         onChain   |-> Clamp(2000, 9000, 5000 + (mvrv - 150) * 20),
         liquidity |-> Clamp(3000, 8000, 5000 + in.rand),
         leverage  |-> Clamp(2000, 8000, 7000 - funding * 100),
         sentiment |-> Clamp(2000, 8500, fng * 85)]

\* The weights calculateCompositeScore writes back to realtimeData.weights.
AdjustedWeights(w, in) ==
    LET vol == OrDefault(in.vol, 65)
        w1  == IF vol > 80
               THEN [w EXCEPT !.leverage = @ + 5, !.sentiment = @ + 5,
                              !.macro = @ - 5, !.liquidity = @ - 5]
               ELSE w
    IN  IF detectRegimeHMM(in) \in {"EUPHORIA", "DISTRIBUTION"}
        THEN [w1 EXCEPT !.leverage = @ + 5, !.onChain = @ - 5]
        ELSE w1

WeightedSum(sc, w) ==
    sc.macro * w.macro + sc.onChain * w.onChain + sc.liquidity * w.liquidity
        + sc.leverage * w.leverage + sc.sentiment * w.sentiment

\* calculateComponentScores(); calculateCompositeScore(); ...;
\* detectRegimeHMM(): the scoring part of a refresh cycle.
RunScoring(in) ==
    /\ scoreRuns < MaxScoreRuns
    /\ scoreRuns' = scoreRuns + 1
    /\ componentScores' = calculateComponentScores(in)
    /\ weights' = AdjustedWeights(weights, in)
    /\ compositeScore' = Round(WeightedSum(componentScores', weights'), 10000)
    /\ regime' = detectRegimeHMM(in)
    /\ lastInput' = in
    /\ UNCHANGED <<notScore>>

NextScore == \E in \in ScoreInputs : RunScoring(in)

SpecScore == Init /\ [][NextScore]_vars

\* ------------------------------------------------------------------------
\* script.js : calculateFromATH
\* ------------------------------------------------------------------------
\* A JavaScript argument: missing (undefined or null) or a number.
Missing == [missing |-> TRUE, v |-> 0]

Num(n) == [missing |-> FALSE, v |-> n]

\* !x for such an argument: true for undefined, null and 0.
Falsy(x) == x.missing \/ x.v = 0

\* A returned number as the exact fraction num / den, or null.
NullNumber == [null |-> TRUE, num |-> 0, den |-> 1]

Fraction(n, d) == [null |-> FALSE, num |-> n, den |-> d]

\* if (!currentPrice || !athPrice) return null;
\* return ((currentPrice - athPrice) / athPrice) * 100;
calculateFromATH(currentPrice, athPrice) ==
    IF Falsy(currentPrice) \/ Falsy(athPrice) THEN NullNumber
    ELSE Fraction((currentPrice.v - athPrice.v) * 100, athPrice.v)

Prices == {Missing} \cup {Num(n) : n \in {0, 1, 25000, 50000, 100000, 108353, 150000}}

References == {Missing} \cup {Num(n) : n \in {0, 1, 69000, 100000, 108353, 200000}}

InitFromATH ==
    /\ InitRest
    /\ call \in {[fn |-> "calculateFromATH", p |-> p, r |-> r] :
                    p \in Prices, r \in References}
    /\ result = NoResult

CallFromATH ==
    /\ call.fn = "calculateFromATH"
    /\ ~result.done
    /\ result' = Returned(calculateFromATH(call.p, call.r))
    /\ UNCHANGED <<notFn, call>>

SpecFromATH == InitFromATH /\ [][CallFromATH]_vars

\* ------------------------------------------------------------------------
\* script.js : calculateRiskScore
\* ------------------------------------------------------------------------
\* The arguments: btc is btcData (missing, or price, ath and 24h change),
\* fg is fearGreedValue (missing, or the decimal string of the API), dom is
\* globalData (missing, or market_cap_percentage.btc).
NoBtc == [missing |-> TRUE, price |-> 0, ath |-> 1, change |-> 0]

Btc(p, a, c) == [missing |-> FALSE, price |-> p, ath |-> a, change |-> c]

RiskInputs ==
    [fn : {"calculateRiskScore"},
     btc : {NoBtc} \cup {Btc(p, 100000, c) : p \in {50000, 100000, 120000},
                                            c \in {-20, 0, 30}},
     fg : {Missing} \cup {Num(n) : n \in {0, 50, 100, 120}},
     dom : {Missing} \cup {Num(n) : n \in {50, 110}}]

NoScore ==
    [null |-> TRUE, athScore |-> Fraction(0, 1), fearGreedScore |-> 0,
     changeScore |-> 0, dominanceScore |-> 0, score |-> 0]

\* Math.round(Math.min(100, Math.max(0, n / d))) for d > 0
ClampRound(n, d) ==
    IF n < 0 THEN 0 ELSE IF n > 100 * d THEN 100 ELSE Round(n, d)

\* The sub-scores as they are when multiplied by their weights, and the
\* returned score.  A string is falsy only when it is missing or empty.
calculateRiskScore(btc, fg, dom) ==
    IF btc.missing \/ fg.missing \/ dom.missing THEN NoScore
    ELSE LET athScore       == Fraction(btc.price * 100, btc.ath)
             fearGreedScore == fg.v
             changeScore    == Clamp(0, 100, (btc.change + 10) * 5)
             dominanceScore == 100 - dom.v
         IN  [null |-> FALSE, athScore |-> athScore,
              fearGreedScore |-> fearGreedScore,
              changeScore |-> changeScore,
              dominanceScore |-> dominanceScore,
              score |-> ClampRound(35 * athScore.num
                                     + athScore.den * (35 * fearGreedScore
                                                       + 15 * changeScore
                                                       + 15 * dominanceScore),
                                   100 * athScore.den)]

InitRisk ==
    /\ InitRest
    /\ call \in RiskInputs
    /\ result = NoResult

CallRiskScore ==
    /\ call.fn = "calculateRiskScore"
    /\ ~result.done
    /\ result' = Returned(calculateRiskScore(call.btc, call.fg, call.dom))
    /\ UNCHANGED <<notFn, call>>

SpecRisk == InitRisk /\ [][CallRiskScore]_vars

\* ------------------------------------------------------------------------
\* Zone classification: getRiskZone and updateCycleScore
\* ------------------------------------------------------------------------
\* script.js getRiskZone(score)
getRiskZone(score) ==
    IF score <= 30 THEN "Accumulation"
    ELSE IF score <= 70 THEN "Neutral"
    ELSE "Overheated"

\* updateCycleScore: the score from the distance to the ATH (in percent) and
\* the fear-greed index, clamped to [0,100].
CycleScore(fromATH, fearGreed) ==
    LET a == IF fromATH < -60 THEN 30
             ELSE IF fromATH < -40 THEN 20
             ELSE IF fromATH < -20 THEN 10
             ELSE IF fromATH > -10 THEN -20
             ELSE 0
        f == IF fearGreed < 25 THEN 20
             ELSE IF fearGreed < 45 THEN 10
             ELSE IF fearGreed > 75 THEN -20
             ELSE IF fearGreed > 60 THEN -10
             ELSE 0
    IN  Clamp(0, 100, 50 + a + f)

\* updateCycleScore: the class it puts on the score element.
CycleScoreZone(score) ==
    IF score < 40 THEN "Accumulation"
    ELSE IF score < 65 THEN "Neutral"
    ELSE "Overheated"

ZoneInputs ==
    {[fn |-> "getRiskZone", score |-> n] : n \in 0..100}
        \cup {[fn |-> "updateCycleScore", fromATH |-> a, fearGreed |-> f] :
                 a \in {-70, -50, -30, -15, 0}, f \in {10, 30, 50, 70, 90}}

InitZone ==
    /\ InitRest
    /\ call \in ZoneInputs
    /\ result = NoResult

CallGetRiskZone ==
    /\ call.fn = "getRiskZone"
    /\ ~result.done
    /\ result' = Returned([score |-> call.score,
                           zone |-> getRiskZone(call.score)])
    /\ UNCHANGED <<notFn, call>>

CallUpdateCycleScore ==
    /\ call.fn = "updateCycleScore"
    /\ ~result.done
    /\ LET score == CycleScore(call.fromATH, call.fearGreed)
       IN  result' = Returned([score |-> score, zone |-> CycleScoreZone(score)])
    /\ UNCHANGED <<notFn, call>>

NextZone == CallGetRiskZone \/ CallUpdateCycleScore

SpecZone == InitZone /\ [][NextZone]_vars

\* ------------------------------------------------------------------------
\* script.js : updateLayer7 and getSentimentInterpretation
\* ------------------------------------------------------------------------
\* The text updateLayer7 puts into the fearGreedLabel element.
fearGreedLabel(value) ==
    IF value <= 25 THEN "Extreme Fear - Strong Buy Signal"
    ELSE IF value <= 45 THEN "Fear - Accumulation Phase"
    ELSE IF value <= 55 THEN "Neutral - Market Balance"
    ELSE IF value <= 75 THEN "Greed - Caution Advised"
    ELSE "Extreme Greed - High Risk"

getSentimentInterpretation(v) ==
    IF v <= 20 THEN "Extreme Fear"
    ELSE IF v <= 40 THEN "Fear Phase"
    ELSE IF v <= 60 THEN "Neutral Zone"
    ELSE IF v <= 80 THEN "Greed Phase"
    ELSE "Extreme Greed"

\* The band a displayed text names.
Band(text) ==
    CASE text \in {"Extreme Fear - Strong Buy Signal", "Extreme Fear"}
            -> "Extreme Fear"
      [] text \in {"Fear - Accumulation Phase", "Fear Phase"} -> "Fear"
      [] text \in {"Neutral - Market Balance", "Neutral Zone"} -> "Neutral"
      [] text \in {"Greed - Caution Advised", "Greed Phase"} -> "Greed"
      [] OTHER -> "Extreme Greed"

InitSentiment ==
    /\ InitRest
    /\ call \in {[fn |-> "updateLayer7", value |-> v] : v \in 0..100}
    /\ result = NoResult

\* updateLayer7 with dashboardData.fearGreed.value = call.value
CallUpdateLayer7 ==
    /\ call.fn = "updateLayer7"
    /\ ~result.done
    /\ result' = Returned([label |-> fearGreedLabel(call.value),
                           interpretation |->
                               getSentimentInterpretation(call.value)])
    /\ UNCHANGED <<notFn, call>>

SpecSentiment == InitSentiment /\ [][CallUpdateLayer7]_vars

\* ------------------------------------------------------------------------
\* Realtime module: the life of the WebSocket connections
\* ------------------------------------------------------------------------
\* A socket as initWebSocket constructs it: its onclose has not run, and no
\* initWebSocket call has come from it.
NewSocket ==
    [st |-> "connecting", closedAt |-> NoTimer, attempts |-> 0,
     attemptAt |-> NoTimer]

\* initWebSocket(): new WebSocket(...) and its handlers on success; the
\* catch branch falls back to initPolling() and constructs nothing, which
\* the list records as a failed entry.
initWebSocket(throws) ==
    Append(sockets, IF throws THEN [NewSocket EXCEPT !.st = "failed"]
                    ELSE NewSocket)

\* init() calls initWebSocket() once.
SockInit(throws) ==
    /\ sockets = <<>> /\ wsTimers = {} /\ now = 0
    /\ sockets' = initWebSocket(throws)
    /\ UNCHANGED <<now, wsTimers, notSock>>

\* onopen of socket i
SockOpen(i) ==
    /\ sockets[i].st = "connecting"
    /\ sockets' = [sockets EXCEPT ![i].st = "open"]
    /\ UNCHANGED <<now, wsTimers, notSock>>

\* onclose of socket i: setTimeout(() => initWebSocket(), wsReconnectDelay).
\* A socket fires its close event once.
SockClose(i) ==
    /\ sockets[i].st \in {"connecting", "open"}
    /\ Len(sockets) < MaxWebSockets
    /\ now + wsReconnectDelay <= MaxSockClock
    /\ sockets' = [sockets EXCEPT ![i].st = "closed", ![i].closedAt = now]
    /\ wsTimers' = wsTimers \cup {[at |-> now + wsReconnectDelay, from |-> i]}
    /\ UNCHANGED <<now, notSock>>

\* What remains armed once the timer t has run: setTimeout runs once.
AfterTimeout_Repeats(t) == wsTimers

AfterTimeout(t) == wsTimers \ {t}

\* The timer of onclose runs initWebSocket().
SockReconnectFires(t, throws) ==
    /\ t \in wsTimers
    /\ now = t.at
    /\ Len(sockets) < MaxWebSockets
    /\ sockets' = [initWebSocket(throws) EXCEPT
                      ![t.from].attempts = @ + 1, ![t.from].attemptAt = now]
    /\ wsTimers' = AfterTimeout(t)
    /\ UNCHANGED <<now, notSock>>

\* Time passes: to the next reconnect timer, or by wsReconnectDelay while
\* none is armed.
AdvanceSock ==
    /\ TimerJump(MaxSockClock) \/ Drift(wsReconnectDelay, MaxSockClock)
    /\ UNCHANGED <<sockVars, notSock>>

NextSock ==
    \/ \E t \in BOOLEAN : SockInit(t)
    \/ \E i \in DOMAIN sockets : SockOpen(i)
    \/ \E i \in DOMAIN sockets : SockClose(i)
    \/ \E t \in wsTimers : \E th \in BOOLEAN : SockReconnectFires(t, th)
    \/ AdvanceSock

SpecSock == Init /\ [][NextSock]_vars

\* The event loop runs a timer that is due, and time does not stop.
SpecSockFair ==
    /\ SpecSock
    /\ WF_vars(AdvanceSock)
    /\ WF_vars(\E t \in wsTimers : \E th \in BOOLEAN : SockReconnectFires(t, th))

\* ------------------------------------------------------------------------
\* initializeDashboard and startAutoRefresh
\* ------------------------------------------------------------------------
INIT_RETRY_DELAY == 5000
refreshInterval == 60000

\* The programs that have initializeDashboard: script_1.js calls setInterval
\* and drops the handle, the others keep it in refreshTimer.
BootPrograms == {"script_1", "part_001", "realtime"}

\* How an attempt ends: fetchAllData rethrows, updateAllDisplays throws, or
\* neither does.
BootOutcomes == {"fetchThrows", "displayThrows", "ok"}

\* startAutoRefresh(): clearInterval(refreshTimer) where the program keeps
\* the handle, then setInterval.
startAutoRefresh(prog, armed) ==
    (IF prog = "script_1" THEN armed ELSE {}) \cup
        {[id |-> boot.attempts, at |-> now + refreshInterval]}

\* The refresh timers after the attempt: startAutoRefresh is the last call
\* of the try block.
ArmedAfter_Finally(prog, out, armed) == startAutoRefresh(prog, armed)

ArmedAfter(prog, out, armed) ==
    IF out = "ok" THEN startAutoRefresh(prog, armed) ELSE armed

\* DOMContentLoaded: initializeDashboard() is called and awaits fetchAllData.
BootStart(prog) ==
    /\ boot = NoBoot
    /\ now = 0
    /\ boot' = [prog |-> prog, pc |-> "fetching", attempts |-> 1, threw |-> 0]
    /\ UNCHANGED <<now, bootRetry, refreshTimers, refreshTicks, notBoot>>

\* The attempt ends: in the try block, or in the catch block with
\* setTimeout(initializeDashboard, 5000).
BootEnd(out) ==
    /\ boot.pc = "fetching"
    /\ out = "ok" \/ boot.attempts < MaxBootAttempts
    /\ boot' = [boot EXCEPT !.pc = IF out = "ok" THEN "done" ELSE "waiting",
                            !.threw = IF out = "ok" THEN @ ELSE @ + 1]
    /\ bootRetry' = IF out = "ok" THEN bootRetry
                    ELSE bootRetry \cup {now + INIT_RETRY_DELAY}
    /\ refreshTimers' = ArmedAfter(boot.prog, out, refreshTimers)
    /\ UNCHANGED <<now, refreshTicks, notBoot>>

\* The retry timer runs initializeDashboard().
BootRetryFires ==
    /\ now \in bootRetry
    /\ bootRetry' = bootRetry \ {now}
    /\ boot' = [boot EXCEPT !.pc = "fetching", !.attempts = @ + 1]
    /\ UNCHANGED <<now, refreshTimers, refreshTicks, notBoot>>

\* An armed interval runs its callback, whose try/catch swallows every
\* exception, and stays armed.
RefreshTick(t) ==
    /\ t \in refreshTimers
    /\ now = t.at
    /\ refreshTicks < MaxRefreshTicks
    /\ refreshTicks' = refreshTicks + 1
    /\ refreshTimers' = (refreshTimers \ {t}) \cup
                           {[t EXCEPT !.at = now + refreshInterval]}
    /\ UNCHANGED <<now, boot, bootRetry, notBoot>>

\* Time passes: to the next timer, or by INIT_RETRY_DELAY while an attempt
\* awaits its fetches.
AdvanceBoot ==
    /\ TimerJump(MaxBootClock) \/ Drift(INIT_RETRY_DELAY, MaxBootClock)
    /\ UNCHANGED <<bootVars, notBoot>>

NextBoot ==
    \/ \E prog \in BootPrograms : BootStart(prog)
    \/ \E out \in BootOutcomes : BootEnd(out)
    \/ BootRetryFires
    \/ \E t \in refreshTimers : RefreshTick(t)
    \/ AdvanceBoot

SpecBoot == Init /\ [][NextBoot]_vars

\* ------------------------------------------------------------------------
\* script-pro.js : calculateMetrics, state.history
\* ------------------------------------------------------------------------
HISTORY_POINTS == 100

\* The state calculateMetrics finds: bitcoin, bitcoinData or global not set
\* yet; a coin document without market_data.ath; complete data.
MetricsStates == {"missing", "bad", "ok"}

\* The price, crash risk and cycle position of the n-th sample.
SampleAt(n) ==
    [price |-> 50000 + n, crashRisk |-> n % 101,
     cyclePosition |-> (3 * n) % 101]

\* if (state.history.prices.length > 100) { ...shift() }
Shifted_Late(h) ==
    IF Len(h.prices) > HISTORY_POINTS + 1
    THEN [prices |-> Tail(h.prices), riskScores |-> Tail(h.riskScores),
          cyclePositions |-> Tail(h.cyclePositions)]
    ELSE h

Shifted(h) ==
    IF Len(h.prices) > HISTORY_POINTS
    THEN [prices |-> Tail(h.prices), riskScores |-> Tail(h.riskScores),
          cyclePositions |-> Tail(h.cyclePositions)]
    ELSE h

\* The three push calls.
Pushed(h, x) ==
    [prices |-> Append(h.prices, x.price),
     riskScores |-> Append(h.riskScores, x.crashRisk),
     cyclePositions |-> Append(h.cyclePositions, x.cyclePosition)]

\* calculateMetrics(): the early return, the TypeError on a coin document
\* without market_data, or the whole computation: both smoothers take the
\* sample (they are constructed anew while the history is empty), the sample
\* is pushed and the oldest point is shifted out past 100.
CalculateMetrics(st) ==
    /\ histRuns < MaxHistRuns
    /\ histRuns' = histRuns + 1
    /\ IF st = "ok"
       THEN LET x == SampleAt(smoothers.price + 1)
            IN  /\ smoothers' = [price |-> smoothers.price + 1,
                                 risk |-> smoothers.risk + 1]
                /\ history' = Shifted(Pushed(history, x))
       ELSE UNCHANGED <<history, smoothers>>
    /\ UNCHANGED notHist

NextHist == \E st \in MetricsStates : CalculateMetrics(st)

SpecHist == Init /\ [][NextHist]_vars

\* ------------------------------------------------------------------------
\* unnamed/part_001, script_1.js : the five-component composite score
\* ------------------------------------------------------------------------
calculateMacroScore == 45

calculateLiquidityScore == 52

calculateLeverageScore == 32

\* fromATH = ((currentPrice - ath) / ath) * 100 against a threshold t, for a
\* price and an ath that are numbers or undefined: a NaN (undefined operand,
\* 0 / 0) compares false with everything, a positive price over ath = 0 is
\* Infinity.
FromATHBelow(price, ath, t) ==
    /\ ~price.missing /\ ~ath.missing
    /\ IF ath.v = 0 THEN FALSE
       ELSE (price.v - ath.v) * 100 < t * ath.v

FromATHAbove(price, ath, t) ==
    /\ ~price.missing /\ ~ath.missing
    /\ IF ath.v = 0 THEN price.v > 0
       ELSE (price.v - ath.v) * 100 > t * ath.v

calculateOnChainScore(price, ath) ==
    LET score == IF FromATHBelow(price, ath, -60) THEN 50 + 30
                 ELSE IF FromATHBelow(price, ath, -40) THEN 50 + 20
                 ELSE IF FromATHBelow(price, ath, -20) THEN 50 + 10
                 ELSE IF FromATHAbove(price, ath, -10) THEN 50 - 20
                 ELSE 50
    IN  Clamp(0, 100, score)

\* fgValue = parseInt(dashboardData.fearGreed.value): NaN for a value that
\* does not start with a number, and NaN < n is false.
calculateSentimentScore_Direct(fg) == IF fg.missing THEN 20 ELSE fg.v

calculateSentimentScore(fg) ==
    IF fg.missing THEN 20
    ELSE IF fg.v < 20 THEN 75
    ELSE IF fg.v < 40 THEN 65
    ELSE IF fg.v < 60 THEN 50
    ELSE IF fg.v < 80 THEN 35
    ELSE 20

updateScoreDescription(score) ==
    IF score <= 20 THEN "EXTREME BEAR (0-20)"
    ELSE IF score <= 40 THEN "BEAR MARKET (21-40)"
    ELSE IF score <= 60 THEN "NEUTRAL ZONE (41-60)"
    ELSE IF score <= 80 THEN "BULL MARKET (61-80)"
    ELSE "EXTREME BULL (81-100)"

\* calculateCompositeScore() with both payloads present: the component
\* scores, Math.round of their weighted sum (weights in hundredths) and the
\* description shown for it.
calculateCompositeScore(price, ath, fg) ==
    LET onchain   == calculateOnChainScore(price, ath)
        sentiment == calculateSentimentScore(fg)
        composite == Round(calculateMacroScore * 30 + onchain * 25
                              + calculateLiquidityScore * 20
                              + calculateLeverageScore * 15
                              + sentiment * 10, 100)
    IN  [onchain |-> onchain, sentiment |-> sentiment,
         composite |-> composite,
         description |-> updateScoreDescription(composite)]

CompositePrices ==
    {Missing} \cup
    {Num(n) : n \in {0, 20000, 43341, 43342, 65011, 65012, 86682, 86683,
                     97517, 97518, 108353, 150000}}

CompositeATHs == {Missing, Num(0), Num(108353)}

CompositeFearGreed ==
    {Missing} \cup {Num(n) : n \in {0, 19, 20, 39, 40, 59, 60, 79, 80, 100}}

InitComposite ==
    /\ InitRest
    /\ call \in {[fn |-> "calculateCompositeScore", price |-> p, ath |-> a,
                  fg |-> f] :
                    p \in CompositePrices, a \in CompositeATHs,
                    f \in CompositeFearGreed}
    /\ result = NoResult

CallCompositeScore ==
    /\ call.fn = "calculateCompositeScore"
    /\ ~result.done
    /\ result' = Returned(calculateCompositeScore(call.price, call.ath,
                                                  call.fg))
    /\ UNCHANGED <<notFn, call>>

SpecComposite == InitComposite /\ [][CallCompositeScore]_vars

\* script_1.js: the refresh cycles of the dashboard.
NextS1 ==
    \/ S1Begin
    \/ \E res \in [S1Sources -> S1Responses] : S1Resume(res)

SpecS1 == Init /\ [][NextS1]_vars

\* ------------------------------------------------------------------------
\* Properties of script-pro.js
\* ------------------------------------------------------------------------

\* C1: a tick of the refresh interval that fires while the previous
\* fetchAllData invocation has not completed is skipped, so at most one
\* invocation is in progress at any time.
C1_SingleFlight == Cardinality(inflight) <= 1

\* C2: fetchJSON issues at most RETRY_ATTEMPTS + 1 requests; it stops at the
\* first successful attempt, and otherwise returns null after exactly
\* RETRY_ATTEMPTS + 1 failed attempts; every retry is issued RETRY_DELAY
\* after the failure of the attempt before it.
C2_RetryCeiling ==
    /\ fj.attempts <= RETRY_ATTEMPTS + 1
    /\ fj.oks <= 1
    /\ fj.oks = 1 => fj.pc = "done"
    /\ fj.pc = "done" =>
          /\ fj.attempts = fj.fails + fj.oks
          /\ fj.attempts = IF fj.oks = 1 THEN fj.fails + 1
                           ELSE RETRY_ATTEMPTS + 1
          /\ fj.oks = 0 => fj.result = Null
    /\ fj.pc = "fetch" /\ fj.attempts > 1 =>
          fj.start = fj.failAt + RETRY_DELAY

\* An always-failing transport: four attempts, then null.
C2_Witness ==
    /\ fj.pc = "done" /\ fj.oks = 0 /\ fj.result = Null
    /\ fj.attempts = 4 /\ fj.fails = 4

C4_NoAttemptPastTimeout ==
    fj.pc \in {"fetch", "body"} => now - fj.start <= FETCH_TIMEOUT

\* C5: the value fetchJSON returns, and so the value fetchAllData stores for
\* the source, never comes from an attempt that its timeout aborted, also
\* when the response of that attempt arrives afterwards.
C5_LateDiscarded ==
    /\ fj.late \subseteq fj.aborted
    /\ fj.result # Null => fj.result.att \notin fj.aborted
    /\ probe # "none" /\ state[probe] # Null =>
          state[probe].att \notin fj.aborted

\* The response of an aborted attempt arrived late, and the value stored for
\* the source is that of a later attempt.
C5_Witness ==
    /\ probe # "none"
    /\ fj.late # {}
    /\ state[probe] # Null
    /\ \E a \in fj.late : state[probe].att > a

\* ------------------------------------------------------------------------
\* Properties of fetchWithCache
\* ------------------------------------------------------------------------

\* C6: once an entry has been stored for a key at time T, a call for that
\* key at T + cacheDuration - 1 is answered from the cache without a network
\* request, and a call at T + cacheDuration + 1 issues a network request.
C6_FreshnessWindow ==
    \A k \in Keys :
        putAt[k] >= 0 =>
            /\ lastCall[k].at = putAt[k] + cacheDuration - 1 =>
                  ~lastCall[k].net
            /\ lastCall[k].at = putAt[k] + cacheDuration + 1 =>
                  lastCall[k].net

\* C7: a fetchWithCache call whose request fails, or whose body validateData
\* rejects, returns the data of the entry cached for the key, whatever its
\* age, and null exactly when the key has no entry; the cache is left as it
\* was.
C7_StaleServe ==
    [][\A k \in Keys :
          (lastRet'[k] # lastRet[k] /\ lastRet'[k].via \in {"fail", "invalid"})
          => /\ lastRet'[k].data = IF dataCache[k] = NoEntry THEN NullData
                                   ELSE dataCache[k].data
             /\ (lastRet'[k].data = NullData) <=> (dataCache[k] = NoEntry)
             /\ dataCache'[k] = dataCache[k]]_vars

\* A failed request was answered with an entry older than cacheDuration.
C7_Witness ==
    \E k \in Keys :
        /\ lastRet[k].via = "fail"
        /\ dataCache[k] # NoEntry
        /\ lastRet[k].data = dataCache[k].data
        /\ now - dataCache[k].timestamp > cacheDuration

\* C8: every cache entry holds a body validateData accepted for its key; the
\* cache changes only when a call returns a validated body, the new entry
\* being that body with the start time of the call, whatever entry was there;
\* a rejected body leaves the entry as it was.
C8_ValidatedCache ==
    /\ [](\A k \in Keys :
             dataCache[k] # NoEntry => validateData(dataCache[k].data, k))
    /\ [][\A k \in Keys :
             /\ dataCache'[k] # dataCache[k] =>
                   /\ lastRet'[k] # lastRet[k]
                   /\ lastRet'[k].via = "fresh"
             /\ (lastRet'[k] # lastRet[k] /\ lastRet'[k].via = "fresh") =>
                   \E r \in requests \ requests' :
                       /\ r.key = k
                       /\ dataCache'[k] = [data |-> lastRet'[k].data,
                                           timestamp |-> r.t0]
             /\ (lastRet'[k] # lastRet[k] /\ lastRet'[k].via = "invalid") =>
                   dataCache'[k] = dataCache[k]]_vars

\* A body was rejected while the key had an entry, and the entry is still
\* there.
C8_Witness ==
    \E k \in Keys :
        /\ lastRet[k].via = "invalid"
        /\ dataCache[k] # NoEntry
        /\ lastRet[k].data = dataCache[k].data

\* ------------------------------------------------------------------------
\* Properties of the realtime scheduling
\* ------------------------------------------------------------------------
\* C9: no failure is fatal to scheduling.  Once fallback polling has started,
\* every round of a poll loop re-arms the next one, whatever the request
\* returned: a poll loop is always either waiting for fetchBitcoinData or
\* armed for its next round.
C9_PollingKeepsGoing ==
    \A p \in 1..MaxPolls : polls[p].pc # "dead"

\* C10: per-source isolation.  When every handler of a refresh cycle has
\* returned or thrown, the derived metrics and the display update of that
\* cycle have run, whatever one source did.
C10_PerSourceIsolation ==
    \A c \in 1..MaxCycles :
        rtCycles[c].phase # "caught"

\* ------------------------------------------------------------------------
\* Properties of the stored data
\* ------------------------------------------------------------------------
\* C11: a response with a non-2xx HTTP status is a fetch failure; its body
\* is never stored as the source's data, so every stored value of
\* dashboardData came with a 2xx status.
C11_HttpErrorNotStored ==
    \A src \in S1Sources : ~dashboardData[src].nil => dashboardData[src].ok

\* C12: stop cancels everything and is idempotent.  Once the beforeunload
\* handler has run, no timer of the realtime module is armed (refresh
\* interval, fallback-polling timeouts, WebSocket reconnect timeout), and a
\* further run of the handler changes nothing.
C12_StopCancelsAll ==
    /\ [](cleanups > 0 =>
             /\ rtInterval = NoTimer
             /\ wsReconnect = NoTimer
             /\ pollStart = {}
             /\ \A p \in 1..MaxPolls : polls[p].timer = NoTimer)
    /\ [][(cleanups > 0 /\ cleanups' > cleanups) =>
             UNCHANGED <<rtVars>>]_vars

\* C13: single writer per cache key.  For each key at most one
\* fetchWithCache request is in flight at any time; in particular a refresh
\* cycle and a poll loop never fetch 'bitcoin' concurrently.
C13_SingleWriterPerKey ==
    \A k \in Keys : Cardinality({r \in requests : r.key = k}) <= 1

\* ------------------------------------------------------------------------
\* Properties of the pure functions
\* ------------------------------------------------------------------------
\* C14 (as stated): validateData returns true for every key other than
\* 'bitcoin', 'feargreed' and 'gold', whatever payload is passed.
C14_PermissiveDefault ==
    (result.done /\ call.type \notin {"bitcoin", "feargreed", "gold"})
        => result.val

\* C14 (amended): for a key other than 'bitcoin', 'feargreed' and 'gold',
\* validateData returns true for every payload that is not falsy (null,
\* undefined, 0, "", false), and false for a falsy one.
C14_PermissiveDefaultForPayload ==
    (result.done /\ call.type \notin {"bitcoin", "feargreed", "gold"})
        => (result.val <=> ~call.data.nil)

\* A payload without any of the expected members was accepted for a key
\* the validator does not know.
C14_Witness ==
    /\ result.done
    /\ call.type = "onchain"
    /\ ~call.data.nil /\ ~call.data.has
    /\ result.val

\* C15: percent from reference.  For every reference r > 0,
\* calculateFromATH(p, r) is null exactly when the price is missing, and for
\* a price that is present (0 included) it is (p - r) / r * 100, sign
\* preserved.
C15_PercentFromReference ==
    (result.done /\ ~call.r.missing /\ call.r.v > 0) =>
        /\ result.val.null <=> call.p.missing
        /\ ~call.p.missing =>
              /\ ~result.val.null
              /\ result.val.num * call.r.v
                     = (call.p.v - call.r.v) * 100 * result.val.den

\* C16: composite score range.  After any sequence of refresh cycles and
\* for every combination of inputs, the composite score is an integer in
\* [0,100].
C16_CompositeScoreRange == compositeScore \in 0..100

\* C17: clamp before weighting.  In calculateRiskScore each of the four
\* sub-scores lies in [0,100] when it is multiplied by its weight, for every
\* input.
C17_ClampBeforeWeighting ==
    (result.done /\ ~result.val.null) =>
        /\ result.val.athScore.num >= 0
        /\ result.val.athScore.num <= 100 * result.val.athScore.den
        /\ result.val.fearGreedScore \in 0..100
        /\ result.val.changeScore \in 0..100
        /\ result.val.dominanceScore \in 0..100

\* C18: zone classification.  Every place that classifies the composite
\* score assigns 'Accumulation' for score <= 30, 'Neutral' for
\* 30 < score <= 70 and 'Overheated' for score > 70.
C18_ZoneTable ==
    result.done =>
        result.val.zone = IF result.val.score <= 30 THEN "Accumulation"
                          ELSE IF result.val.score <= 70 THEN "Neutral"
                          ELSE "Overheated"

\* C19: sentiment label.  For every index v in 0..100 both the
\* fearGreedLabel text and getSentimentInterpretation name the band of the
\* table v <= 25 Extreme Fear, v <= 45 Fear, v <= 55 Neutral, v <= 75 Greed,
\* otherwise Extreme Greed, so the two labels name the same band.
C19_SentimentBands ==
    result.done =>
        LET band == IF call.value <= 25 THEN "Extreme Fear"
                    ELSE IF call.value <= 45 THEN "Fear"
                    ELSE IF call.value <= 55 THEN "Neutral"
                    ELSE IF call.value <= 75 THEN "Greed"
                    ELSE "Extreme Greed"
        IN  /\ Band(result.val.label) = band
            /\ Band(result.val.interpretation) = band

\* C20: missing-input default.  When the sentiment value is missing and the
\* other inputs are present, the scoring still returns a score, computed
\* with the neutral default 50 for the sentiment input; a sentiment value
\* that is present is used as it is.
C20_MissingSentimentDefault ==
    (result.done /\ ~call.btc.missing /\ ~call.dom.missing) =>
        /\ ~result.val.null
        /\ result.val.fearGreedScore
               = IF call.fg.missing THEN 50 ELSE call.fg.v

\* ------------------------------------------------------------------------
\* Properties of the recomputation
\* ------------------------------------------------------------------------
\* C21: idempotent recomputation.  A scoring run that reads the same fetched
\* data as the run before it leaves component scores, weights, composite
\* score and regime exactly as that run left them.
C21_IdempotentRecomputation ==
    [][(scoreRuns > 0 /\ scoreRuns' > scoreRuns /\ lastInput' = lastInput) =>
          /\ componentScores' = componentScores
          /\ weights' = weights
          /\ compositeScore' = compositeScore
          /\ regime' = regime]_vars

\* C22: bounded fallback polling.  However many WebSocket error events
\* occur, at most one fallback polling loop is active (fetching, or waiting
\* for its next round) at any time.
C22_OnePollingLoop ==
    Cardinality({p \in DOMAIN polls : polls[p].pc \in {"fetching", "armed"}})
        <= 1

\* C23: WebSocket reconnect.  Whenever a connection closes, exactly one new
\* connection attempt is eventually made, wsReconnectDelay after the close,
\* and at no time is more than one WebSocket open or connecting.
C23_OneLiveSocket ==
    Cardinality({i \in DOMAIN sockets :
                    sockets[i].st \in {"connecting", "open"}}) <= 1

C23_AtMostOneAttempt ==
    \A i \in DOMAIN sockets :
        /\ sockets[i].attempts <= 1
        /\ sockets[i].attempts = 1 =>
              sockets[i].attemptAt = sockets[i].closedAt + wsReconnectDelay

C23_Reconnect ==
    /\ []C23_OneLiveSocket
    /\ []C23_AtMostOneAttempt
    /\ \A i \in 1..MaxWebSockets :
          (i <= Len(sockets) /\ sockets[i].st = "closed")
             ~> (i <= Len(sockets) /\ sockets[i].attempts = 1)

\* The second socket has closed too and its reconnect attempt was made.
C23_Witness ==
    /\ Len(sockets) = 3
    /\ sockets[1].st = "closed" /\ sockets[2].st = "closed"
    /\ sockets[2].attempts = 1

\* C24: initialization retry and single timer.  An initializeDashboard
\* attempt that throws schedules exactly one retry 5 s later and arms no
\* refresh timer; the auto-refresh interval is armed only after an attempt
\* has completed without throwing; at most one auto-refresh interval is armed
\* in every reachable state.
C24_SingleRefreshTimer ==
    /\ Cardinality(refreshTimers) <= 1
    /\ refreshTimers # {} => boot.pc = "done"
    /\ Cardinality(bootRetry) <= 1

C24_ThrowSchedulesOneRetry ==
    (boot.pc = "fetching" /\ boot'.threw = boot.threw + 1) =>
        /\ bootRetry' = bootRetry \cup {now + 5000}
        /\ Cardinality(bootRetry') = Cardinality(bootRetry) + 1
        /\ refreshTimers' = refreshTimers

C24_InitRetry ==
    /\ []C24_SingleRefreshTimer
    /\ [][C24_ThrowSchedulesOneRetry]_vars

\* Two attempts threw, the third armed the refresh timer, which has run.
C24_Witness ==
    /\ boot.threw = 2 /\ boot.pc = "done"
    /\ Cardinality(refreshTimers) = 1
    /\ refreshTicks > 0

\* C25: adaptive weights stay valid.  After any sequence of
\* calculateCompositeScore calls the five weights still sum to 1.0 and each
\* of them lies in [0, 1] (here in hundredths).
C25_WeightsValid ==
    /\ weights.macro + weights.onChain + weights.liquidity
          + weights.leverage + weights.sentiment = 100
    /\ \A c \in DOMAIN weights : weights[c] \in 0..100

\* C26: a failed fetch leaves the last-good value untouched.  In a refresh
\* cycle the stored field of a source whose fetch failed (null, or a payload
\* of an unusable shape) is left as it was, and only a source that succeeded
\* is replaced by its new payload: a stored usable payload never gives way to
\* anything but another usable payload.
C26_FailedFetchKeepsLastGood ==
    [][\A s \in Sources :
          (state[s].shape = "ok" /\ state'[s] # state[s]) =>
              state'[s].shape = "ok"]_vars

\* C27: bounded history.  state.history.prices, riskScores and cyclePositions
\* have equal length, never above 100; once they hold 100 points each
\* further run drops the oldest point and appends the newest (FIFO).
C27_EqualBoundedLengths ==
    /\ Len(history.prices) = Len(history.riskScores)
    /\ Len(history.prices) = Len(history.cyclePositions)
    /\ Len(history.prices) <= 100

C27_Fifo ==
    \A f \in {"prices", "riskScores", "cyclePositions"} :
        (Len(history[f]) = 100 /\ history'[f] # history[f]) =>
            /\ Len(history'[f]) = 100
            /\ \A i \in 1..99 : history'[f][i] = history[f][i + 1]

C27_BoundedHistory ==
    /\ []C27_EqualBoundedLengths
    /\ [][C27_Fifo]_vars

\* The history is full and its oldest points have been dropped.
C27_Witness ==
    /\ Len(history.prices) = 100
    /\ smoothers.price > 101
    /\ history.prices[100] = 50000 + smoothers.price

\* C28: cycle accounting in script-pro fetchAllData.  A cycle that completes
\* without an exception adds exactly 1 to updateCount, resets errors to 0
\* and ends with status LIVE, a cycle in which every fetchJSON call returned
\* null included; errors is incremented, with status ERROR, only when the
\* metrics computation or the UI update throws (on a coin document without
\* market_data), so errors counts the consecutive cycles that ended in the
\* catch branch.
C28_CycleEnds ==
    inflight' # inflight /\ inflight' \subseteq inflight

C28_Accounting ==
    C28_CycleEnds =>
        /\ \/ /\ updateCount' = updateCount + 1
              /\ errors' = 0
              /\ status' = "LIVE"
           \/ /\ updateCount' = updateCount
              /\ errors' = errors + 1
              /\ status' = "ERROR"
        /\ status' = "ERROR" => state'["bitcoinData"].shape = "bad"
        /\ (\A s \in Sources : state'[s] = Null) => status' = "LIVE"

C28_CycleAccounting == [][C28_Accounting]_vars

\* A cycle in which every call returned null ended LIVE, and the two cycles
\* after it ended in the catch branch.
C28_Witness ==
    /\ updateCount = 1 /\ errors = 2 /\ status = "ERROR"
    /\ inflight = {}
    /\ state["global"] = Null

\* C29: reachable range of the five-component composite.  With macro 45,
\* liquidity 52 and leverage 32 fixed, the on-chain score in {30, 50, 60, 70,
\* 80} and the sentiment score in {20, 35, 50, 65, 75}, the composite score
\* is always in 38..56, and updateScoreDescription can only show 'BEAR MARKET
\* (21-40)' or 'NEUTRAL ZONE (41-60)'.
C29_CompositeRange ==
    (result.done /\ call.fn = "calculateCompositeScore") =>
        /\ result.val.onchain \in {30, 50, 60, 70, 80}
        /\ result.val.sentiment \in {20, 35, 50, 65, 75}
        /\ result.val.composite \in 38..56
        /\ result.val.description \in
              {"BEAR MARKET (21-40)", "NEUTRAL ZONE (41-60)"}

\* The lowest composite: price near the all-time high under extreme greed.
C29_Witness ==
    /\ result.done /\ call.fn = "calculateCompositeScore"
    /\ result.val.composite = 38
    /\ result.val.description = "BEAR MARKET (21-40)"

\* C30: cache entries never go backwards.  For every key the timestamp of
\* the stored entry never decreases: an entry is never replaced by the
\* payload of a request that started before the request that produced the
\* current entry (the timestamp of an entry is the start of its request).
C30_CacheNeverGoesBack ==
    [][\A k \in Keys : dataCache'[k].timestamp >= dataCache[k].timestamp]_vars

====
